---- MODULE Spec2Model ----
(***************************************************************************)
(* A model of the EfficientNet backbone (detectron2/modeling/backbone/     *)
(* efficientnet.py) and of the checkpoint deploy script                    *)
(* (tools/model_deploy.py).                                                *)
(*                                                                         *)
(* Tensors are not computed: an activation is modelled by the sequence of  *)
(* layer applications that produced it, a parameter by its requires_grad   *)
(* flag, a convolution by its channel counts.  Python mappings are         *)
(* functions whose domain is the key set; a key of a mixed-type dict is    *)
(* encoded as a string (IntKey) so that an int key and a str key           *)
(* never compare equal, as in Python.                                      *)
(*                                                                         *)
(* Specifications:                                                         *)
(*   SpecDeploy  one run of tools/model_deploy.py                          *)
(*   SpecBlock   one call of MBConvBlock.forward                           *)
(*   SpecRate    the drop-connect rate computed in extract_features' loop  *)
(*   SpecBuild   EfficientNet.__init__ on an arbitrary block-args list     *)
(*   Spec        the life of a backbone: from_name / from_pretrained /     *)
(*               get_image_size, freeze, forward                           *)
(***************************************************************************)
EXTENDS Integers, Sequences, FiniteSets, TLC

VARIABLES
    \* ---- tools/model_deploy.py ----
    sys_argv,        \* the command line, program name first
    files,           \* the file system: path -> checkpoint mapping
    pc,              \* position of the script
    args,            \* the argparse namespace (input, output)
    model_weights,   \* the mapping loaded by torch.load, popped in place
    exit_status,     \* process exit code, -1 while running
    help_printed,    \* parser.print_help() / the -h action wrote the help
    input_read,      \* the input checkpoint was opened and read
    output_opened,   \* the output file was opened for writing
    raised,          \* the uncaught exception that ended the script, or "none"
    loaded,          \* history: the mapping as torch.load returned it
    \* ---- MBConvBlock ----
    block,           \* the MBConvBlock under call: _block_args, has_se, id_skip
    training,        \* the module's training flag
    drop_connect_rate, \* the drop_connect_rate argument of forward
    block_out,       \* what forward returned, or NoOutput before the call
    \* ---- EfficientNet ----
    ctor_args,       \* the arguments __init__ was or will be called with
    net,             \* the EfficientNet instance, or NoNet
    call,            \* the classmethod that was called, with its arguments
    err,             \* the exception a call raised, or NoError
    params_looked_up, \* get_model_params / efficientnet_params was called
    image_size,      \* what get_image_size returned, or NoneNum
    freeze_calls,    \* the layer_idx values freeze was called with
    fwd,             \* what forward returned or raised, or NoFwd
    \* ---- the block loop of extract_features ----
    global_rate,     \* self._global_params.drop_connect_rate, in tenths
    num_blocks,      \* len(self._blocks)
    idx,             \* the loop index, -1 before the loop
    rates            \* the rate passed to each block so far

deployVars == <<sys_argv, files, pc, args, model_weights, exit_status,
                help_printed, input_read, output_opened, raised, loaded>>

blockVars == <<block, training, drop_connect_rate, block_out>>

netVars == <<ctor_args, net, call, err, params_looked_up, image_size,
             freeze_calls, fwd>>

loopVars == <<global_rate, num_blocks, idx, rates>>

vars == <<deployVars, blockVars, netVars, loopVars>>

\* Python's None where the other values are numbers.
NoneNum == -1

\* The variables of the parts a specification leaves alone.
otherThanDeploy == <<blockVars, netVars, loopVars>>
otherThanBlock == <<deployVars, netVars, loopVars>>
otherThanNet == <<deployVars, blockVars, loopVars>>
otherThanLoop == <<deployVars, blockVars, netVars>>

InitLoopIdle ==
    /\ global_rate = NoneNum
    /\ num_blocks = 0
    /\ idx = -1
    /\ rates = <<>>

NoNet == <<>>
NoError == <<>>
NoFwd == <<>>
NoCall == <<>>

InitNetIdle ==
    /\ ctor_args = <<>>
    /\ net = NoNet
    /\ call = NoCall
    /\ err = NoError
    /\ params_looked_up = FALSE
    /\ image_size = NoneNum
    /\ freeze_calls = {}
    /\ fwd = NoFwd

InitBlockIdle ==
    /\ block = <<>>
    /\ training = FALSE
    /\ drop_connect_rate = NoneNum
    /\ block_out = <<>>

None == "None"

Max(a, b) == IF a >= b THEN a ELSE b

(***************************************************************************)
(*                       tools/model_deploy.py                             *)
(***************************************************************************)

\* Longest command line explored, in tokens after the program name.
MaxArgs == 4

ProgName == "model_deploy.py"

\* Command-line tokens: the two options of get_parser, argparse's own -h,
\* and two path words.
Tokens == {"-i", "-o", "-h", "in.pth", "out.pth"}

ArgvChoices == UNION {[1..n -> Tokens] : n \in 0..MaxArgs}

\* parser.add_argument('--output', '-o', default='model_deploy.pth', ...)
DefaultOutput == "model_deploy.pth"

\* The keys a training checkpoint holds, and the three the script pops.
CkptKeys == {"model", "optimizer", "scheduler", "iteration"}

\* The value stored under a key of the input checkpoint.
CkptValue(k) == k \o "@in"

Checkpoints == {[k \in K |-> CkptValue(k)] : K \in SUBSET CkptKeys}

\* The file systems explored: in.pth holds a checkpoint, or no file exists.
FileSystems == {[p \in {"in.pth"} |-> c] : c \in Checkpoints} \cup {<<>>}

IsOptionString(tok) == tok \in {"-i", "-o", "-h"}

\* argparse.ArgumentParser.parse_args for the parser get_parser builds: the
\* tokens are consumed left to right; -h prints the help and exits 0 when it
\* is reached; -i / -o take exactly one following word that is not an option
\* string (else "expected one argument", exit 2); any other word is a
\* positional the parser does not know, reported after the scan
\* ("unrecognized arguments", exit 2).
RECURSIVE ParseFrom(_, _, _, _)
ParseFrom(toks, i, ns, extras) ==
    IF i > Len(toks)
    THEN IF extras # <<>>
         THEN [outcome |-> "error", ns |-> ns]
         ELSE [outcome |-> "ok", ns |-> ns]
    ELSE IF toks[i] = "-h"
    THEN [outcome |-> "help", ns |-> ns]
    ELSE IF toks[i] \in {"-i", "-o"}
    THEN IF i + 1 <= Len(toks) /\ ~IsOptionString(toks[i + 1])
         THEN ParseFrom(toks, i + 2,
                        IF toks[i] = "-i"
                        THEN [ns EXCEPT !.input = toks[i + 1]]
                        ELSE [ns EXCEPT !.output = toks[i + 1]],
                        extras)
         ELSE [outcome |-> "error", ns |-> ns]
    ELSE ParseFrom(toks, i + 1, ns, Append(extras, toks[i]))

parse_args(argv) ==
    ParseFrom(Tail(argv), 1, [input |-> None, output |-> DefaultOutput], <<>>)

\* dict.pop(key) with no default: KeyError when the key is absent.
DictHas(d, k) == k \in DOMAIN d
DictPop(d, k) == [j \in (DOMAIN d) \ {k} |-> d[j]]

NoArgs == [input |-> None, output |-> None]

InitDeployIdle ==
    /\ sys_argv = <<>>
    /\ files = <<>>
    /\ pc = "idle"
    /\ args = NoArgs
    /\ model_weights = <<>>
    /\ exit_status = -1
    /\ help_printed = FALSE
    /\ input_read = FALSE
    /\ output_opened = FALSE
    /\ raised = "none"
    /\ loaded = <<>>

InitDeploy ==
    /\ InitBlockIdle
    /\ InitNetIdle
    /\ InitLoopIdle
    /\ sys_argv \in {<<ProgName>> \o a : a \in ArgvChoices}
    /\ files \in FileSystems
    /\ pc = "start"
    /\ args = NoArgs
    /\ model_weights = <<>>
    /\ exit_status = -1
    /\ help_printed = FALSE
    /\ input_read = FALSE
    /\ output_opened = FALSE
    /\ raised = "none"
    /\ loaded = <<>>

\* The threshold of `if len(sys.argv) < 3`.
MinArgvLen == 3

\* An uncaught exception: the interpreter prints the traceback and exits 1.
Crash(exc) ==
    /\ pc' = "crashed"
    /\ raised' = exc
    /\ exit_status' = 1

\* Variant of CheckArgv: the threshold is one too low, `len(sys.argv) < 2`.
CheckArgvOneTokenPasses ==
    /\ pc = "start"
    /\ IF Len(sys_argv) < MinArgvLen - 1
       THEN /\ help_printed' = TRUE
            /\ exit_status' = 0
            /\ pc' = "exited"
       ELSE /\ pc' = "parse"
            /\ UNCHANGED <<help_printed, exit_status>>
    /\ UNCHANGED <<sys_argv, files, args, model_weights, input_read,
                   output_opened, raised, loaded, otherThanDeploy>>

\* lines 15-19: too few arguments print the help and exit 0.
CheckArgv ==
    /\ pc = "start"
    /\ IF Len(sys_argv) < MinArgvLen
       THEN /\ help_printed' = TRUE
            /\ exit_status' = 0
            /\ pc' = "exited"
       ELSE /\ pc' = "parse"
            /\ UNCHANGED <<help_printed, exit_status>>
    /\ UNCHANGED <<sys_argv, files, args, model_weights, input_read,
                   output_opened, raised, loaded, otherThanDeploy>>

\* line 20: args = parser.parse_args()
ParseArgs ==
    /\ pc = "parse"
    /\ LET r == parse_args(sys_argv) IN
       /\ args' = IF r.outcome = "ok" THEN r.ns ELSE args
       /\ help_printed' = (r.outcome = "help")
       /\ exit_status' = CASE r.outcome = "ok" -> exit_status
                           [] r.outcome = "help" -> 0
                           [] OTHER -> 2
       /\ pc' = IF r.outcome = "ok" THEN "load" ELSE "exited"
    /\ UNCHANGED <<sys_argv, files, model_weights, input_read,
                   output_opened, raised, loaded, otherThanDeploy>>

\* line 21: model_weights = torch.load(open(args.input, 'rb'))
Load ==
    /\ pc = "load"
    /\ IF args.input = None
       THEN /\ Crash("TypeError")
            /\ UNCHANGED <<model_weights, input_read, loaded>>
       ELSE IF args.input \notin DOMAIN files
       THEN /\ Crash("FileNotFoundError")
            /\ UNCHANGED <<model_weights, input_read, loaded>>
       ELSE /\ model_weights' = files[args.input]
            /\ loaded' = files[args.input]
            /\ input_read' = TRUE
            /\ pc' = "pop_optimizer"
            /\ UNCHANGED <<raised, exit_status>>
    /\ UNCHANGED <<sys_argv, files, args, help_printed, output_opened,
                   otherThanDeploy>>

\* Variant of PopStep: pop(key, None), which passes over a missing key.
PopStepWithDefault(at, key, next) ==
    /\ pc = at
    /\ model_weights' = DictPop(model_weights, key)
    /\ pc' = next
    /\ UNCHANGED <<sys_argv, files, args, help_printed, input_read,
                   output_opened, loaded, raised, exit_status, otherThanDeploy>>

\* One model_weights.pop(key) statement, then on to position `next`.
PopStep(at, key, next) ==
    /\ pc = at
    /\ IF DictHas(model_weights, key)
       THEN /\ model_weights' = DictPop(model_weights, key)
            /\ pc' = next
            /\ UNCHANGED <<raised, exit_status>>
       ELSE /\ Crash("KeyError")
            /\ UNCHANGED model_weights
    /\ UNCHANGED <<sys_argv, files, args, help_printed, input_read,
                   output_opened, loaded, otherThanDeploy>>

\* line 22
PopOptimizer == PopStep("pop_optimizer", "optimizer", "pop_scheduler")
\* line 23
PopScheduler == PopStep("pop_scheduler", "scheduler", "pop_iteration")
\* line 24
PopIteration == PopStep("pop_iteration", "iteration", "save")

\* What torch.save leaves in the file system.
SavedFiles(fs, path, obj) ==
    [p \in (DOMAIN fs) \cup {path} |-> IF p = path THEN obj ELSE fs[p]]

\* line 25: torch.save(model_weights, open(args.output, 'wb'))
Save ==
    /\ pc = "save"
    /\ output_opened' = TRUE
    /\ files' = SavedFiles(files, args.output, model_weights)
    /\ exit_status' = 0
    /\ pc' = "done"
    /\ UNCHANGED <<sys_argv, args, model_weights, help_printed, input_read,
                   raised, loaded, otherThanDeploy>>

NextDeploy ==
    \/ CheckArgv
    \/ ParseArgs
    \/ Load
    \/ PopOptimizer
    \/ PopScheduler
    \/ PopIteration
    \/ Save

SpecDeploy == InitDeploy /\ [][NextDeploy]_vars

Removable == {"optimizer", "scheduler", "iteration"}

\* The script has stopped, one way or another.
DeployStopped == pc \in {"exited", "crashed", "done"}

\* C4: a checkpoint with exactly the keys model, optimizer, scheduler and
\* iteration is written back as the mapping {model} with the value it was
\* loaded with; a loaded checkpoint that lacks one of the three popped keys
\* never reaches the save (the output file is never opened, nothing is
\* written) and the run ends in a KeyError with a nonzero exit status.
C4_DeployKeepsModelOnly ==
    /\ (pc = "done" /\ DOMAIN loaded = CkptKeys) =>
           /\ DOMAIN files[args.output] = {"model"}
           /\ files[args.output]["model"] = loaded["model"]
           /\ exit_status = 0
    /\ (input_read /\ ~(Removable \subseteq DOMAIN loaded)) =>
           /\ ~output_opened
           /\ pc \notin {"save", "done"}
           /\ args.output \in DOMAIN files => args.output = args.input
           /\ DeployStopped => (pc = "crashed" /\ raised = "KeyError"
                                 /\ exit_status # 0)

\* C4 witness: a checkpoint lacking a popped key was loaded and the run ended
\* in the KeyError.
C4_WitnessMissingKey ==
    /\ pc = "crashed"
    /\ raised = "KeyError"
    /\ input_read
    /\ "model" \in DOMAIN loaded
    /\ ~(Removable \subseteq DOMAIN loaded)

\* C4, the other case reached: a full checkpoint was saved.
C4_ReachSaved == pc = "done" /\ DOMAIN loaded = CkptKeys

\* C7 as stated: fewer than two tokens print the help and exit 0 without
\* reading or writing; two or more tokens always go on to load the input.
C7_Original ==
    /\ (Len(sys_argv) < 3 /\ pc # "start") =>
           /\ pc = "exited" /\ help_printed /\ exit_status = 0
           /\ ~input_read /\ ~output_opened
    /\ (Len(sys_argv) >= 3) => pc # "exited"

\* C7 amended: fewer than two tokens print the help and exit 0 without
\* reading or writing.  Two or more tokens are handed to the argument parser
\* and nothing else is validated: the script exits early only when the parser
\* does (exit 2 on a command line it rejects, the help and exit 0 on -h),
\* then without reading or writing; otherwise it goes on to open the input
\* named by the parsed arguments.
C7_HelpOnTooFewArgs ==
    /\ (Len(sys_argv) < 3 /\ pc # "start") =>
           /\ pc = "exited" /\ help_printed /\ exit_status = 0
           /\ ~input_read /\ ~output_opened
    /\ (Len(sys_argv) >= 3 /\ pc = "exited") =>
           /\ \E i \in 2..Len(sys_argv) :
                 \/ sys_argv[i] = "-h"
                 \/ ~IsOptionString(sys_argv[i])
                      /\ (i = 2 \/ sys_argv[i - 1] \notin {"-i", "-o"})
                 \/ sys_argv[i] \in {"-i", "-o"}
                      /\ (i = Len(sys_argv) \/ IsOptionString(sys_argv[i + 1]))
           /\ exit_status \in {0, 2}
           /\ (exit_status = 0) = help_printed
           /\ help_printed => \E i \in 2..Len(sys_argv) : sys_argv[i] = "-h"
           /\ ~input_read /\ ~output_opened
    /\ (Len(sys_argv) >= 3 /\ pc \notin {"start", "parse", "exited"}) =>
           /\ \A i \in 2..Len(sys_argv) : sys_argv[i] # "-h"
           /\ args.output # None
           /\ input_read => args.input \in {"in.pth", "out.pth"}

\* C7 witness: a command line of one token ended in the help.
C7_WitnessTooFew ==
    /\ Len(sys_argv) = 2
    /\ pc = "exited"
    /\ help_printed
    /\ exit_status = 0

\* C7, the amended case reached: two tokens the parser rejects.
C7_ReachRejected ==
    /\ Len(sys_argv) >= 3
    /\ pc = "exited"
    /\ exit_status = 2

(***************************************************************************)
(*                            MBConvBlock                                  *)
(***************************************************************************)

\* Channel counts, strides, expansion ratios, squeeze-excite ratios (in
\* hundredths) and drop-connect rates (in tenths) a block is tried with.
FilterChoices == {16, 24}
StrideChoices == {1, 2}
ExpandChoices == {1, 6}
SeRatioChoices == {NoneNum, 0, 25}
BlockRateChoices == {NoneNum, 0, 2}

BlockArgsChoices ==
    [input_filters : FilterChoices, output_filters : FilterChoices,
     stride : StrideChoices, expand_ratio : ExpandChoices,
     se_ratio : SeRatioChoices, id_skip : BOOLEAN]

\* MBConvBlock.__init__: the fields forward reads.  se_ratio is in
\* hundredths, so `0 < se_ratio <= 1` is 0 < se_ratio <= 100.
MBConvBlock(block_args) ==
    [_block_args |-> block_args,
     has_se |-> (block_args.se_ratio # NoneNum)
                /\ (0 < block_args.se_ratio /\ block_args.se_ratio <= 100),
     id_skip |-> block_args.id_skip]

\* Python truthiness of a rate: None and 0 are false.
Truthy(rate) == rate # NoneNum /\ rate # 0

\* Variant of SkipApplies: the stride test is left out.
SkipAppliesIgnoringStride(b) ==
    /\ b.id_skip
    /\ b._block_args.input_filters = b._block_args.output_filters

\* line 97: the condition of the skip connection.
SkipApplies(b) ==
    /\ b.id_skip
    /\ b._block_args.stride = 1
    /\ b._block_args.input_filters = b._block_args.output_filters

\* lines 82-93: the layers applied to the input up to the projection.
ProjectionLayers(b) ==
    (IF b._block_args.expand_ratio # 1
     THEN <<"_expand_conv", "_bn0", "_swish">> ELSE <<>>)
    \o <<"_depthwise_conv", "_bn1", "_swish">>
    \o (IF b.has_se THEN <<"se_gate">> ELSE <<>>)
    \o <<"_project_conv", "_bn2">>

\* drop_connect(x, p, training) changes x only in training mode.
DropConnectApplied(rate, train) == Truthy(rate) /\ train

\* MBConvBlock.forward: the result as the layers applied, the drop-connect
\* probability applied to the branch (NoneNum when none was) and whether the
\* input was added.
MBConvForward(b, rate, train) ==
    IF SkipApplies(b)
    THEN [layers |-> ProjectionLayers(b),
          drop_connect |-> IF DropConnectApplied(rate, train)
                           THEN rate ELSE NoneNum,
          plus_inputs |-> TRUE]
    ELSE [layers |-> ProjectionLayers(b),
          drop_connect |-> NoneNum,
          plus_inputs |-> FALSE]

NoOutput == <<>>

InitBlock ==
    /\ InitDeployIdle
    /\ InitNetIdle
    /\ InitLoopIdle
    /\ block \in {MBConvBlock(a) : a \in BlockArgsChoices}
    /\ training \in BOOLEAN
    /\ drop_connect_rate \in BlockRateChoices
    /\ block_out = NoOutput

\* One call block(x, drop_connect_rate=...).
BlockForward ==
    /\ block_out = NoOutput
    /\ block_out' = MBConvForward(block, drop_connect_rate, training)
    /\ UNCHANGED <<block, training, drop_connect_rate, otherThanBlock>>

NextBlock == BlockForward

SpecBlock == InitBlock /\ [][NextBlock]_vars

\* C3: forward adds its input to the result exactly when the block's id_skip
\* flag is set, its stride is 1 and its input and output channel counts are
\* equal; otherwise the result is the output of the projection
\* (_project_conv, _bn2) with no drop-connect applied, whatever
\* drop_connect_rate was passed.
C3_ResidualIffSkipStrideChannels ==
    block_out # NoOutput =>
        /\ block_out.plus_inputs =
              (/\ block._block_args.id_skip
               /\ block._block_args.stride = 1
               /\ block._block_args.input_filters
                     = block._block_args.output_filters)
        /\ ~block_out.plus_inputs =>
              /\ block_out.drop_connect = NoneNum
              /\ block_out.layers[Len(block_out.layers)] = "_bn2"
              /\ block_out.layers[Len(block_out.layers) - 1] = "_project_conv"

\* C3 witness: a block with id_skip set and equal channel counts but stride
\* 2 was called with a nonzero rate in training mode and returned the
\* projection alone.
C3_WitnessStrideBlocksSkip ==
    /\ block_out # NoOutput
    /\ block._block_args.id_skip
    /\ block._block_args.stride = 2
    /\ block._block_args.input_filters = block._block_args.output_filters
    /\ Truthy(drop_connect_rate)
    /\ training
    /\ ~block_out.plus_inputs

\* C3, the other case reached: the residual was added.
C3_ReachResidual == block_out # NoOutput /\ block_out.plus_inputs

(***************************************************************************)
(*                  EfficientNet.__init__ (construction)                   *)
(***************************************************************************)

\* Largest nominal repeat count of a stage explored.
MaxRepeat == 2

\* str(i) for a natural number.
Digit == <<"0", "1", "2", "3", "4", "5", "6", "7", "8", "9">>
RECURSIVE IntStr(_)
IntStr(i) == IF i < 10 THEN Digit[i + 1]
             ELSE IntStr(i \div 10) \o Digit[(i % 10) + 1]

\* A dict key that is a Python int; a str key is the string itself.  No str
\* key used by the code starts with "int:", so the two never collide.
IntKey(i) == "int:" \o IntStr(i)

\* The empty dict, and d[k] = v on a dict.
EmptyDict == <<>>
DictSet(d, k, v) == [j \in (DOMAIN d) \cup {k} |-> IF j = k THEN v ELSE d[j]]

\* `x in lst` for a list.
InList(x, lst) == \E i \in 1..Len(lst) : lst[i] = x

RECURSIVE SumSeq(_)
SumSeq(q) == IF q = <<>> THEN 0 ELSE q[1] + SumSeq(Tail(q))

\* lst[start:stop:step] (0-based, step > 0): no error past the end.
RECURSIVE PySlice(_, _, _, _)
PySlice(lst, start, stop, step) ==
    IF start >= stop \/ start >= Len(lst) THEN <<>>
    ELSE <<lst[start + 1]>> \o PySlice(lst, start + step, stop, step)

\* The divisor channel counts are rounded to.
DepthDivisor == 8

\* round_filters: the width multiplier (in tenths) applied to a channel
\* count, rounded to the nearest multiple of the divisor, at least the
\* divisor, and raised by one divisor if the rounding lost more than 10%.
round_filters(filters, global_params) ==
    LET scaled10 == filters * global_params.width_coefficient
        rounded == ((scaled10 + 5 * DepthDivisor) \div (10 * DepthDivisor))
                   * DepthDivisor
        new_filters == Max(DepthDivisor, rounded)
    IN IF 100 * new_filters < 9 * scaled10
       THEN new_filters + DepthDivisor
       ELSE new_filters

\* round_repeats: ceil(depth multiplier * repeats), at least 1; the
\* multiplier is in tenths.
round_repeats(repeats, global_params) ==
    Max(1, (global_params.depth_coefficient * repeats + 9) \div 10)

\* Channel counts the code passes to round_filters for the stem and head.
StemFilters == 32
HeadFilters == 1280

\* The per-stage tables the nominal block-args lists are drawn from: output
\* channels, strides; the input channels of a stage are the output channels
\* of the one before (the stem's for the first).
StageOutputFilters == <<16, 24, 40, 80, 112, 192, 320, 384>>
StageStrides == <<1, 2, 2, 2, 1, 2, 1, 1>>
StageCounts == {6, 7}
LongStageCount == Len(StageOutputFilters)

NominalStage(s, r) ==
    [num_repeat |-> r,
     input_filters |-> IF s = 1 THEN StemFilters ELSE StageOutputFilters[s - 1],
     output_filters |-> StageOutputFilters[s],
     stride |-> StageStrides[s],
     expand_ratio |-> IF s = 1 THEN 1 ELSE 6,
     se_ratio |-> 25,
     id_skip |-> TRUE]

\* The nominal list with the given repeat counts, one per stage.
NominalBlocksArgs(reps) == [s \in 1..Len(reps) |-> NominalStage(s, reps[s])]

\* The lists __init__ is tried with: every choice of repeat counts for six
\* and seven stages, and eight stages of equal repeat counts.
BlocksArgsLists ==
    {NominalBlocksArgs(reps) :
        reps \in UNION {[1..n -> 1..MaxRepeat] : n \in StageCounts}}
    \cup {NominalBlocksArgs([s \in 1..LongStageCount |-> r]) : r \in 1..MaxRepeat}

\* Width and depth multipliers and drop-connect rates, all in tenths.
GlobalParamsChoices ==
    [width_coefficient : {10, 14}, depth_coefficient : {10, 14},
     drop_connect_rate : {0, 2}]

\* out_features=None, as a list.
NoneList == <<None>>

OutFeaturesChoices ==
    {NoneList, <<"res5">>, <<"stem", "res2", "res5", "linear">>,
     <<"res2", "res3", "res4", "res5">>}

\* line 136
block_indices == <<0, 1, 2, 4, 6>>

\* Variant of ScaledArgs: the repeat count is left unscaled.
ScaledArgsRepeatUnscaled(block_args, global_params) ==
    [block_args EXCEPT
        !.input_filters = round_filters(block_args.input_filters, global_params),
        !.output_filters = round_filters(block_args.output_filters, global_params)]

\* lines 157-161: block_args._replace(...) with the scaled fields.
ScaledArgs(block_args, global_params) ==
    [block_args EXCEPT
        !.input_filters = round_filters(block_args.input_filters, global_params),
        !.output_filters = round_filters(block_args.output_filters, global_params),
        !.num_repeat = round_repeats(block_args.num_repeat, global_params)]

\* lines 165-166: the args of the repeated blocks of a stage.
RepeatArgs(scaled) ==
    IF scaled.num_repeat > 1
    THEN [scaled EXCEPT !.input_filters = scaled.output_filters, !.stride = 1]
    ELSE scaled

\* Variant of StageBlocks: the repeated blocks keep the first block's args.
StageBlocksNoReplace(block_args, global_params) ==
    LET scaled == ScaledArgs(block_args, global_params)
    IN [i \in 1..Max(1, scaled.num_repeat) |-> MBConvBlock(scaled)]

\* lines 154-168, one pass of the loop: the blocks appended for one stage.
\* range(num_repeat - 1) is empty when num_repeat < 1.
StageBlocks(block_args, global_params) ==
    LET scaled == ScaledArgs(block_args, global_params)
    IN <<MBConvBlock(scaled)>>
       \o [i \in 1..(scaled.num_repeat - 1) |-> MBConvBlock(RepeatArgs(scaled))]

\* lines 153-168: self._blocks.
RECURSIVE BuildBlocks(_, _)
BuildBlocks(blocks_args, global_params) ==
    IF blocks_args = <<>> THEN <<>>
    ELSE StageBlocks(blocks_args[1], global_params)
         \o BuildBlocks(Tail(blocks_args), global_params)

\* The loop variable block_args as the loop leaves it (line 183 reads it).
LastLoopArgs(blocks_args, global_params) ==
    RepeatArgs(ScaledArgs(blocks_args[Len(blocks_args)], global_params))

\* lines 170-174: block_end_indices, 0-based block indices in a 1-based
\* sequence.
BlockEndIndices(blocks_args, global_params) ==
    LET round_reps == [i \in 1..Len(blocks_args) |->
                          round_repeats(blocks_args[i].num_repeat, global_params)]
    IN [i \in 1..Len(round_reps) |-> SumSeq(SubSeq(round_reps, 1, i)) - 1]

\* 'res'+str(i), and the i of such a name.
ResName(i) == "res" \o IntStr(i)
ResNumber(name) == CHOOSE j \in 1..Len(block_indices) : name = ResName(j)

\* Variant of OutFeatureIndices: the boundary is one block early.
OutFeatureIndicesOneEarly(block_end_indices) ==
    [name \in {ResName(i) : i \in 1..Len(block_indices)} |->
        Max(0, block_end_indices[block_indices[ResNumber(name)] + 1] - 1)]

\* line 175: {'res'+str(i+1): block_end_indices[block_indices[i]]}; defined
\* when every block_indices[i] is within the list (else IndexError).
OutFeatureIndices(block_end_indices) ==
    [name \in {ResName(i) : i \in 1..Len(block_indices)} |->
        block_end_indices[block_indices[ResNumber(name)] + 1]]

\* line 176: {v: k for k, v in self._out_feature_indices.items()}; of two
\* names with one index the later item wins.
OutIndicesToFeature(out_feature_indices) ==
    [key \in {IntKey(out_feature_indices[k]) : k \in DOMAIN out_feature_indices} |->
        CHOOSE k \in DOMAIN out_feature_indices :
            /\ IntKey(out_feature_indices[k]) = key
            /\ \A k2 \in DOMAIN out_feature_indices :
                  IntKey(out_feature_indices[k2]) = key
                      => ResNumber(k2) <= ResNumber(k)]

\* Variant of OutFeatureChannels: the slice [3:5] in place of [4:7:2].
OutFeatureChannelsWrongSlice(blocks_args, global_params) ==
    LET picked == PySlice(blocks_args, 0, 3, 1) \o PySlice(blocks_args, 3, 5, 1)
    IN [name \in {ResName(i) : i \in 1..Len(picked)} |->
          round_filters(picked[ResNumber(name)].output_filters, global_params)]

\* line 177: the channel table over blocks_args[:3] + blocks_args[4:7:2].
OutFeatureChannels(blocks_args, global_params) ==
    LET picked == PySlice(blocks_args, 0, 3, 1) \o PySlice(blocks_args, 4, 7, 2)
    IN [name \in {ResName(i) : i \in 1..Len(picked)} |->
          round_filters(picked[ResNumber(name)].output_filters, global_params)]

\* EfficientNet.__init__: the instance, or the exception it raises.
EfficientNet(blocks_args, global_params, out_features) ==
    IF Len(blocks_args) = 0
    THEN [raised |-> "AssertionError"]
    ELSE IF \E i \in 1..Len(block_indices) : block_indices[i] >= Len(blocks_args)
    THEN [raised |-> "IndexError"]
    ELSE LET blocks == BuildBlocks(blocks_args, global_params)
             indices == OutFeatureIndices(BlockEndIndices(blocks_args, global_params))
         IN [raised |-> "none",
             _global_params |-> global_params,
             _blocks_args |-> blocks_args,
             stem |-> [in_channels |-> 3,
                       out_channels |-> round_filters(StemFilters, global_params)],
             _conv_stem |-> NoneNum,
             _blocks |-> blocks,
             _out_feature_indices |-> indices,
             _out_indices_to_feature |-> OutIndicesToFeature(indices),
             _out_feature_channels |-> OutFeatureChannels(blocks_args, global_params),
             _out_features |-> IF out_features = NoneList
                               THEN <<"res5">> ELSE out_features,
             _conv_head |->
                 [in_channels |->
                      LastLoopArgs(blocks_args, global_params).output_filters,
                  out_channels |-> round_filters(HeadFilters, global_params)],
             weights_loaded |-> FALSE,
             requires_grad |-> [stem |-> TRUE,
                                blocks |-> [i \in 1..Len(blocks) |-> TRUE],
                                head |-> TRUE]]

\* The constructor calls explored: out_features given or defaulted.
CtorArgsChoices ==
    [blocks_args : BlocksArgsLists,
     global_params : {g \in GlobalParamsChoices : g.drop_connect_rate = 2},
     out_features : {NoneList, <<"stem", "res2", "res5", "linear">>}]

InitBuild ==
    /\ InitDeployIdle
    /\ InitBlockIdle
    /\ InitLoopIdle
    /\ ctor_args \in CtorArgsChoices
    /\ net = NoNet
    /\ call = NoCall
    /\ err = NoError
    /\ params_looked_up = FALSE
    /\ image_size = NoneNum
    /\ freeze_calls = {}
    /\ fwd = NoFwd

\* EfficientNet(blocks_args, global_params, out_features=...)
Construct ==
    /\ net = NoNet
    /\ err = NoError
    /\ LET made == EfficientNet(ctor_args.blocks_args, ctor_args.global_params,
                                ctor_args.out_features)
       IN /\ net' = IF made.raised = "none" THEN made ELSE NoNet
          /\ err' = IF made.raised = "none" THEN NoError
                    ELSE [type |-> made.raised, message |-> <<>>]
    /\ call' = [method |-> "__init__"]
    /\ UNCHANGED <<ctor_args, params_looked_up, image_size, freeze_calls, fwd,
                   otherThanNet>>

NextBuild == Construct

SpecBuild == InitBuild /\ [][NextBuild]_vars

\* The number of blocks a stage is to have, and the 1-based positions of
\* the first and last block of stage s in the block list.
ScaledRepeat(cargs, s) ==
    round_repeats(cargs.blocks_args[s].num_repeat, cargs.global_params)
StageFirst(cargs, s) ==
    1 + SumSeq([t \in 1..(s - 1) |-> ScaledRepeat(cargs, t)])
StageLast(cargs, s) ==
    SumSeq([t \in 1..s |-> ScaledRepeat(cargs, t)])

\* C9: construction makes, for each nominal stage in order, exactly the
\* scaled repeat count of blocks: the first with the stage's stride and the
\* scaled input channels, the others with stride 1 and the stage's scaled
\* output channels as input channels; so the number of blocks is the sum of
\* the scaled repeat counts; the nominal list is kept as given; and the head
\* convolution takes the scaled output channels of the last stage.
C9_BlocksPerStage ==
    net # NoNet =>
        LET nominal == ctor_args.blocks_args
            gp == ctor_args.global_params
            n == Len(nominal)
        IN /\ Len(net._blocks) = SumSeq([s \in 1..n |-> ScaledRepeat(ctor_args, s)])
           /\ \A s \in 1..n :
                LET first == net._blocks[StageFirst(ctor_args, s)]._block_args
                IN /\ first.stride = nominal[s].stride
                   /\ first.input_filters
                        = round_filters(nominal[s].input_filters, gp)
                   /\ first.output_filters
                        = round_filters(nominal[s].output_filters, gp)
                   /\ \A j \in (StageFirst(ctor_args, s) + 1)..StageLast(ctor_args, s) :
                        /\ net._blocks[j]._block_args.stride = 1
                        /\ net._blocks[j]._block_args.input_filters
                             = round_filters(nominal[s].output_filters, gp)
                        /\ net._blocks[j]._block_args.output_filters
                             = round_filters(nominal[s].output_filters, gp)
           /\ net._blocks_args = nominal
           /\ nominal \in BlocksArgsLists
           /\ net._conv_head.in_channels
                = round_filters(nominal[n].output_filters, gp)

\* C9 witness: a model was built from a list with a stride-2 stage whose
\* repeat count of 2 was scaled to three blocks.
C9_WitnessRepeatedStage ==
    /\ net # NoNet
    /\ \E s \in 1..Len(ctor_args.blocks_args) :
          /\ ctor_args.blocks_args[s].stride = 2
          /\ ctor_args.blocks_args[s].num_repeat = 2
          /\ ScaledRepeat(ctor_args, s) = 3

\* The nominal stages (0-based) whose last blocks are the boundaries of res1
\* to res5.
FeatureStages == <<0, 1, 2, 4, 6>>

\* C10: for a seven-stage list the boundary index of res<i> is the index of
\* the last block of nominal stage [0,1,2,4,6][i-1]; the five indices
\* increase strictly, lie within the block list, the last being the final
\* block; and the channel count advertised for res<i> is the output channel
\* count of the block at its boundary.  A list of fewer than seven stages
\* makes construction fail.
C10_FeatureBoundaries ==
    /\ (net # NoNet /\ Len(ctor_args.blocks_args) = 7) =>
          /\ DOMAIN net._out_feature_indices = {ResName(i) : i \in 1..5}
          /\ DOMAIN net._out_feature_channels = {ResName(i) : i \in 1..5}
          /\ \A i \in 1..5 :
                LET at == net._out_feature_indices[ResName(i)]
                IN /\ at = StageLast(ctor_args, FeatureStages[i] + 1) - 1
                   /\ at \in 0..(Len(net._blocks) - 1)
                   /\ i > 1 => net._out_feature_indices[ResName(i - 1)] < at
                   /\ net._out_feature_channels[ResName(i)]
                        = net._blocks[at + 1]._block_args.output_filters
                   /\ net._out_indices_to_feature[IntKey(at)] = ResName(i)
          /\ net._out_feature_indices[ResName(5)] = Len(net._blocks) - 1
    /\ (call # NoCall /\ Len(ctor_args.blocks_args) < 7) =>
          /\ net = NoNet
          /\ err # NoError
          /\ err.type = "IndexError"

\* C10 witness: a seven-stage model was built in which a boundary stage has
\* several blocks and the skipped stages 3 and 5 have two or more.
C10_WitnessSevenStages ==
    /\ net # NoNet
    /\ Len(ctor_args.blocks_args) = 7
    /\ ScaledRepeat(ctor_args, 4) >= 2
    /\ ScaledRepeat(ctor_args, 6) >= 2
    /\ ScaledRepeat(ctor_args, 3) >= 2
    /\ ctor_args.global_params.width_coefficient = 14

\* C10, the other case reached: a six-stage list was refused.
C10_ReachRefused ==
    /\ call # NoCall
    /\ Len(ctor_args.blocks_args) = 6
    /\ net = NoNet
    /\ err # NoError

(***************************************************************************)
(*        The drop-connect rate in extract_features' block loop            *)
(***************************************************************************)

\* Largest configured drop-connect rate explored, in tenths, and the
\* longest block list.
MaxRate == 5
MaxBlocks == 10

\* The fewest blocks a constructed model has: one for each of the seven
\* stages line 175 requires.
MinBlocks == 7

\* A rate is a fraction: num / den.
Frac(num, den) == [num |-> num, den |-> den]
FracEq(a, b) == a.num * b.den = b.num * a.den
FracLess(a, b) == a.num * b.den < b.num * a.den
FracLeq(a, b) == a.num * b.den <= b.num * a.den

\* Variant of DropConnectRateAt: scaled by idx / (len - 1), which reaches
\* the configured rate at the last block.
DropConnectRateAtOverLenMinusOne(rate10, i, len) ==
    IF Truthy(rate10) THEN Frac(rate10 * i, 10 * (len - 1)) ELSE Frac(rate10, 10)

\* lines 214-216: drop_connect_rate, scaled by float(idx) / len(self._blocks)
\* when it is truthy.  rate10 is the configured rate in tenths; the product
\* is kept exact (the float rounding of the code is not modelled).
DropConnectRateAt(rate10, i, len) ==
    IF Truthy(rate10) THEN Frac(rate10 * i, 10 * len) ELSE Frac(rate10, 10)

InitRate ==
    /\ InitDeployIdle
    /\ InitBlockIdle
    /\ InitNetIdle
    /\ global_rate \in 0..MaxRate
    /\ num_blocks \in MinBlocks..MaxBlocks
    /\ idx = -1
    /\ rates = <<>>

\* lines 213-217, one pass of `for idx, block in enumerate(self._blocks)`:
\* the rate for block idx is computed and passed to the block.
LoopStep ==
    /\ idx + 1 < num_blocks
    /\ idx' = idx + 1
    /\ rates' = Append(rates, DropConnectRateAt(global_rate, idx + 1, num_blocks))
    /\ UNCHANGED <<global_rate, num_blocks, otherThanLoop>>

NextRate == LoopStep

SpecRate == InitRate /\ [][NextRate]_vars

MaxFreezeCalls == 1

\* Variant of valid_models: range(1, 9).
valid_models_from_b1 == [i \in 1..8 |-> "efficientnet-b" \o IntStr(i)]

\* line 266: ['efficientnet-b'+str(i) for i in range(9)]
valid_models == [i \in 1..9 |-> "efficientnet-b" \o IntStr(i - 1)]

\* sep.join(lst), as the sequence of the pieces joined.
RECURSIVE Join(_, _)
Join(sep, lst) ==
    IF Len(lst) = 0 THEN <<>>
    ELSE IF Len(lst) = 1 THEN lst
    ELSE <<lst[1], sep>> \o Join(sep, Tail(lst))

\* lines 264-268: the exception _check_model_name_is_valid raises, or
\* NoError.  The message is the sequence of its pieces.
check_model_name_is_valid(model_name) ==
    IF ~InList(model_name, valid_models)
    THEN [type |-> "ValueError",
          message |-> <<"model_name should be one of: ">>
                      \o Join(", ", valid_models)]
    ELSE NoError

\* The names the classmethods are called with.
ModelNames ==
    {"efficientnet-b" \o IntStr(i) : i \in 0..9}
    \cup {"efficientnet_b0", "efficientnet-B0", "resnet50"}

\* What get_model_params may return: a seven-stage nominal list and the
\* global parameters.
VariantRepeats == {<<1, 2, 2, 3, 3, 4, 1>>, <<2, 1, 1, 1, 2, 1, 1>>}
VariantParams ==
    [blocks_args : {NominalBlocksArgs(r) : r \in VariantRepeats},
     global_params : {g \in GlobalParamsChoices : g.width_coefficient = 10}]

\* What efficientnet_params may return as the resolution.
ImageSizes == {224, 240}

InChannelsChoices == {1, 3}

\* lines 241-245: from_name.  `params` is what get_model_params returns if
\* it is reached.
from_name(model_name, params, out_features) ==
    LET e == check_model_name_is_valid(model_name)
    IN IF e # NoError
       THEN [err |-> e, net |-> NoNet, looked_up |-> FALSE, ctor_args |-> <<>>]
       ELSE LET made == EfficientNet(params.blocks_args, params.global_params,
                                     out_features)
            IN [err |-> IF made.raised = "none" THEN NoError
                        ELSE [type |-> made.raised, message |-> <<>>],
                net |-> IF made.raised = "none" THEN made ELSE NoNet,
                looked_up |-> TRUE,
                ctor_args |-> [blocks_args |-> params.blocks_args,
                               global_params |-> params.global_params,
                               out_features |-> out_features]]

\* lines 247-255: from_pretrained.
from_pretrained(model_name, params, in_channels, out_features) ==
    LET r == from_name(model_name, params, out_features)
    IN IF r.net = NoNet THEN r
       ELSE [r EXCEPT !.net =
                [r.net EXCEPT !.weights_loaded = TRUE,
                              !._conv_stem = IF in_channels # 3
                                             THEN in_channels ELSE @]]

FromName ==
    /\ call = NoCall
    /\ \E model_name \in ModelNames, params \in VariantParams,
          out_features \in OutFeaturesChoices :
          LET r == from_name(model_name, params, out_features)
          IN /\ call' = [method |-> "from_name", model_name |-> model_name,
                         in_channels |-> 3]
             /\ err' = r.err
             /\ net' = r.net
             /\ params_looked_up' = r.looked_up
             /\ ctor_args' = r.ctor_args
    /\ UNCHANGED <<image_size, freeze_calls, fwd, otherThanNet>>

FromPretrained ==
    /\ call = NoCall
    /\ \E model_name \in ModelNames, params \in VariantParams,
          in_channels \in InChannelsChoices,
          out_features \in OutFeaturesChoices :
          LET r == from_pretrained(model_name, params, in_channels, out_features)
          IN /\ call' = [method |-> "from_pretrained",
                         model_name |-> model_name,
                         in_channels |-> in_channels]
             /\ err' = r.err
             /\ net' = r.net
             /\ params_looked_up' = r.looked_up
             /\ ctor_args' = r.ctor_args
    /\ UNCHANGED <<image_size, freeze_calls, fwd, otherThanNet>>

\* lines 257-261: get_image_size.
GetImageSize ==
    /\ call = NoCall
    /\ \E model_name \in ModelNames, res \in ImageSizes :
          LET e == check_model_name_is_valid(model_name)
          IN /\ call' = [method |-> "get_image_size", model_name |-> model_name,
                         in_channels |-> 3]
             /\ err' = e
             /\ params_looked_up' = (e = NoError)
             /\ image_size' = IF e = NoError THEN res ELSE NoneNum
    /\ UNCHANGED <<ctor_args, net, freeze_calls, fwd, otherThanNet>>

\* The layer_idx values freeze is called with.
FreezeArgs == 0..5

\* lines 199-205: freeze.  Block i of the code is _blocks[i + 1] here.
freeze(n, layer_idx) ==
    IF layer_idx > 0
    THEN LET bound == n._out_feature_indices[ResName(layer_idx)]
         IN [n EXCEPT !.requires_grad.stem = FALSE,
                      !.requires_grad.blocks =
                          [i \in DOMAIN @ |-> IF i - 1 < bound THEN FALSE ELSE @[i]]]
    ELSE n

Freeze ==
    /\ net # NoNet
    /\ Cardinality(freeze_calls) < MaxFreezeCalls
    /\ \E layer_idx \in FreezeArgs \ freeze_calls :
          /\ net' = freeze(net, layer_idx)
          /\ freeze_calls' = freeze_calls \cup {layer_idx}
    /\ UNCHANGED <<ctor_args, call, err, params_looked_up, image_size, fwd,
                   otherThanNet>>

\* The activation after block i, and after the stem and the final layer.
BlockActivation(i) == "x@block" \o IntStr(i)

\* lines 213-221: the block loop from index i on.
RECURSIVE ExtractLoop(_, _, _, _)
ExtractLoop(n, i, outputs, passed) ==
    IF i >= Len(n._blocks)
    THEN [raised |-> "none", outputs |-> outputs, rates |-> passed]
    ELSE LET rate == DropConnectRateAt(n._global_params.drop_connect_rate, i,
                                       Len(n._blocks))
             passed2 == Append(passed, rate)
         IN IF IntKey(i) \in DOMAIN n._out_indices_to_feature
            THEN IF IntKey(i) \notin DOMAIN n._out_feature_indices
                 THEN [raised |-> "KeyError", outputs |-> outputs,
                       rates |-> passed2]
                 ELSE LET name == n._out_feature_indices[IntKey(i)]
                      IN ExtractLoop(n, i + 1,
                                     IF InList(name, n._out_features)
                                     THEN DictSet(outputs, name, BlockActivation(i))
                                     ELSE outputs,
                                     passed2)
            ELSE ExtractLoop(n, i + 1, outputs, passed2)

\* lines 207-224: extract_features.
extract_features(n) ==
    ExtractLoop(n, 0,
                IF InList("stem", n._out_features)
                THEN DictSet(EmptyDict, "stem", "x@stem") ELSE EmptyDict,
                <<>>)

\* lines 226-239: forward; what it returns, or the exception it raises.
\* stem_in_channels is the input channel count of the convolution applied
\* to the input (self.stem, line 210).
forward(n) ==
    LET e == extract_features(n)
    IN [raised |-> e.raised,
        outputs |-> IF e.raised # "none" THEN EmptyDict
                    ELSE IF InList("linear", n._out_features)
                    THEN DictSet(e.outputs, "linear", "logits")
                    ELSE e.outputs,
        blocks_called |-> Len(e.rates),
        rates |-> e.rates,
        stem_in_channels |-> n.stem.in_channels]

Forward ==
    /\ net # NoNet
    /\ fwd = NoFwd
    /\ fwd' = forward(net)
    /\ UNCHANGED <<ctor_args, net, call, err, params_looked_up, image_size,
                   freeze_calls, otherThanNet>>

Init ==
    /\ InitDeployIdle
    /\ InitBlockIdle
    /\ InitLoopIdle
    /\ InitNetIdle

Next ==
    \/ FromName
    \/ FromPretrained
    \/ GetImageSize
    \/ Freeze
    \/ Forward

Spec == Init /\ [][Next]_vars

\* The set of the elements of a list.
ListSet(lst) == {lst[i] : i \in 1..Len(lst)}

\* C1: forward completes and the keys of the mapping it returns are exactly
\* the configured out_features (one key, "res5", for ["res5"]; the four keys
\* for ["stem", "res2", "res5", "linear"]).
C1_ForwardKeysAreOutFeatures ==
    fwd # NoFwd =>
        /\ fwd.raised = "none"
        /\ DOMAIN fwd.outputs = ListSet(net._out_features)

\* C1, the call the claim is about is reached: forward was called on a model
\* built with out_features = ["res5"].
C1_ReachForward ==
    /\ fwd # NoFwd
    /\ net._out_features = <<"res5">>

\* The first and last block (0-based) of the stage whose last block is the
\* boundary of res<k>.
FreezeStageFirst(k) == StageFirst(ctor_args, FeatureStages[k] + 1) - 1
FreezeStageLast(k) == StageLast(ctor_args, FeatureStages[k] + 1) - 1

\* C2 as stated: freeze(0) leaves every parameter trainable; freeze(k), k in
\* 1..5, makes the stem and every block before the first block of stage k
\* non-trainable and leaves the first block of stage k and every later block
\* trainable.
C2_Original ==
    (net # NoNet /\ Cardinality(freeze_calls) = 1) =>
        LET k == CHOOSE j \in freeze_calls : TRUE
            rg == net.requires_grad
        IN IF k = 0
           THEN /\ rg.stem
                /\ rg.head
                /\ \A i \in 1..Len(rg.blocks) : rg.blocks[i]
           ELSE /\ ~rg.stem
                /\ \A i \in 1..Len(rg.blocks) :
                      rg.blocks[i] = (i - 1 >= FreezeStageFirst(k))

\* C2, what freeze does: freeze(0) leaves every parameter trainable;
\* freeze(k), k in 1..5, makes the stem and every block before the last block
\* of stage k (the boundary block of res<k>) non-trainable, and leaves that
\* block, every later block and the head trainable.  After several calls a
\* parameter is trainable exactly if every call left it so.
C2_FreezeBelowBoundaryBlock ==
    net # NoNet =>
        LET rg == net.requires_grad
        IN /\ rg.stem = (\A k \in freeze_calls : k = 0)
           /\ rg.head
           /\ Len(rg.blocks) = Len(net._blocks)
           /\ \A i \in 1..Len(rg.blocks) :
                 rg.blocks[i] =
                    (\A k \in freeze_calls :
                        k = 0 \/ i - 1 >= FreezeStageLast(k))

\* C2, the diverging case: freeze(2) was called on a model whose stage of
\* res2 has two or more blocks, and the first block of that stage is frozen
\* while its last block is trainable.
C2_WitnessFirstBlockFrozen ==
    /\ net # NoNet
    /\ freeze_calls = {2}
    /\ FreezeStageFirst(2) < FreezeStageLast(2)
    /\ ~net.requires_grad.blocks[FreezeStageFirst(2) + 1]
    /\ net.requires_grad.blocks[FreezeStageLast(2) + 1]

\* The identifiers the claims call valid.
ValidIdentifiers ==
    {"efficientnet-b0", "efficientnet-b1", "efficientnet-b2",
     "efficientnet-b3", "efficientnet-b4", "efficientnet-b5",
     "efficientnet-b6", "efficientnet-b7", "efficientnet-b8"}

\* What C5 says in both forms: an invalid name fails with the validation
\* error, listing the valid identifiers, before any parameter lookup or
\* construction; a valid name passes the validation.
ValidationFailsEarly ==
    /\ (call # NoCall /\ call.model_name \notin ValidIdentifiers) =>
          /\ err # NoError
          /\ err.type = "ValueError"
          /\ ValidIdentifiers \subseteq ListSet(err.message)
          /\ ~params_looked_up
          /\ net = NoNet
          /\ ctor_args = <<>>
          /\ image_size = NoneNum
    /\ (call # NoCall /\ call.model_name \in ValidIdentifiers) =>
          /\ err = NoError
          /\ params_looked_up

\* C5 as stated: as above, and the message names the invalid input.
C5_Original ==
    /\ ValidationFailsEarly
    /\ (call # NoCall /\ call.model_name \notin ValidIdentifiers) =>
          call.model_name \in ListSet(err.message)

\* C5 amended: as above; the message lists the valid identifiers and does
\* not name the invalid input.
C5_InvalidNameRejected ==
    /\ ValidationFailsEarly
    /\ (call # NoCall /\ call.model_name \notin ValidIdentifiers) =>
          /\ call.model_name \notin ListSet(err.message)
          /\ ListSet(err.message) =
                ValidIdentifiers \cup {"model_name should be one of: ", ", "}

\* C5 witness: from_pretrained was called with a name that is not a valid
\* identifier and raised.
C5_WitnessInvalidName ==
    /\ call # NoCall
    /\ call.method = "from_pretrained"
    /\ call.model_name = "efficientnet-b9"
    /\ err # NoError

\* C5, the other case reached: get_image_size answered for a valid name.
C5_ReachValidName ==
    /\ call # NoCall
    /\ call.method = "get_image_size"
    /\ call.model_name = "efficientnet-b8"
    /\ image_size # NoneNum

\* C6: the model from_pretrained returns has a stem convolution, the one
\* forward applies to the input, that takes in_channels input channels:
\* rebuilt when in_channels is not 3, as constructed when it is 3.
C6_StemTakesInChannels ==
    (net # NoNet /\ call.method = "from_pretrained") =>
        /\ net.stem.in_channels = call.in_channels
        /\ fwd # NoFwd => fwd.stem_in_channels = call.in_channels

\* C6, the call the claim is about is reached: from_pretrained returned a
\* model for in_channels = 1.
C6_ReachOneChannel ==
    /\ net # NoNet
    /\ call.method = "from_pretrained"
    /\ call.in_channels = 1
    /\ net._conv_stem = 1

====
